---- MODULE Spec2Model ----
(***************************************************************************)
(* Flash attention / KV cache type validation of the llm package.          *)
(*                                                                         *)
(* The repository carries two versions of the validation code:             *)
(*   - the FlashAttentionSupport version (the unnamed source file), whose  *)
(*     ValidateFlashAttentionSupport returns a four-field record and whose *)
(*     GetServerParams takes that record; its definitions keep the source  *)
(*     names;                                                              *)
(*   - llm/validation.go, whose ValidateFlashAttentionSupport returns a    *)
(*     bool and whose GetServerParams takes the model and the GPU list;    *)
(*     its definitions carry the prefix Llm.                               *)
(* Both are modelled, side by side, from their own source.                 *)
(***************************************************************************)
EXTENDS Integers, Sequences, FiniteSets, TLC

VARIABLES
    kv,                   \* model metadata dictionary handed to the validation
    gpus,                 \* discover.GpuInfoList handed to the validation
    flashAttnRequested,   \* the caller's request flag
    kvCacheType,          \* the requested cache type string
    isEmbedding,          \* the embedding flag of a direct ValidateKVCacheType call
    heap,                 \* backing arrays of the string slices, by array id
    baseParams,           \* the caller's base parameter slice (array, len, cap)
    baseBefore,           \* the base parameters as the caller wrote them
    allocSpare,           \* capacity the allocator rounds a new array up by
    support,              \* FlashAttentionSupport held by the caller
    llmEnabled,           \* bool returned by llm/validation.go's validation
    validated,            \* result of ValidateKVCacheType(kvCacheType, isEmbedding)
    revalidated,          \* result of validating validated.val again
    llmValidated,         \* the same two calls of llm/validation.go
    llmRevalidated,
    params,               \* slice returned by GetServerParams
    llmParams,            \* slice returned by llm/validation.go's GetServerParams
    done,                 \* the calls that have returned
    ValidKVCacheTypes,    \* package-level var of the FlashAttentionSupport version
    LlmValidKVCacheTypes, \* package-level var of llm/validation.go
    callers               \* concurrent callers: position and locals of each

vars == <<kv, gpus, flashAttnRequested, kvCacheType, isEmbedding, heap, baseParams,
          baseBefore, allocSpare, support, llmEnabled, validated, revalidated, llmValidated,
          llmRevalidated, params, llmParams, done, ValidKVCacheTypes,
          LlmValidKVCacheTypes, callers>>

(***************************************************************************)
(* Bounds of the model.                                                    *)
(***************************************************************************)
MaxGpus == 2          \* longest accelerator list
MaxHeadCount == 2     \* head counts range over 0..MaxHeadCount
MaxBase == 2          \* longest caller-supplied base parameter list
MaxSpare == 1         \* spare capacity of a backing array beyond its length
NumCallers == 2       \* concurrent callers
SharedSpare == 3      \* spare capacity of the array concurrent callers share

(***************************************************************************)
(* Program constants.                                                      *)
(***************************************************************************)
MinCudaDriverMajor == 7

(***************************************************************************)
(* Input domains.                                                          *)
(***************************************************************************)
Libraries == {"metal", "rocm", "cuda", "cpu"}
DriverMajors == {MinCudaDriverMajor - 1, MinCudaDriverMajor, MinCudaDriverMajor + 1}
GpuInfos == [Library : Libraries, DriverMajor : DriverMajors]
GpuInfoLists == UNION {[1..n -> GpuInfos] : n \in 0..MaxGpus}

Architectures == {"llama", "bert"}
PoolingKeys == {"bert.pooling_type"}
HeadCounts == 0..MaxHeadCount

\* A metadata dictionary: general.architecture, optionally a pooling_type
\* key, optionally the key/value head lengths of its own architecture.
MakeKV(arch, pool, k, v) ==
    ("general.architecture" :> arch)
    @@ [p \in pool |-> "mean"]
    @@ (IF k > 0 THEN (arch \o ".attention.key_length") :> k ELSE <<>>)
    @@ (IF v > 0 THEN (arch \o ".attention.value_length") :> v ELSE <<>>)

KVs == {MakeKV(a, p, k, v) : a \in Architectures, p \in SUBSET PoolingKeys,
                             k \in HeadCounts, v \in HeadCounts}

(***************************************************************************)
(* The model metadata collaborator (package ggml, not in this source       *)
(* tree): Architecture, key presence, head counts with zero defaults.      *)
(***************************************************************************)
Architecture(m) == m["general.architecture"]

EmbeddingHeadCountK(m) ==
    LET key == Architecture(m) \o ".attention.key_length"
    IN  IF key \in DOMAIN m THEN m[key] ELSE 0

EmbeddingHeadCountV(m) ==
    LET key == Architecture(m) \o ".attention.value_length"
    IN  IF key \in DOMAIN m THEN m[key] ELSE 0

\* _, ok := ggml.KV()[fmt.Sprintf("%s.pooling_type", ggml.KV().Architecture())]
HasPoolingType(m) == (Architecture(m) \o ".pooling_type") \in DOMAIN m

(***************************************************************************)
(* FlashAttentionSupport version: ValidateFlashAttentionSupport.           *)
(***************************************************************************)
FlashAttentionSupport ==
    [SupportedByModel : BOOLEAN, SupportedByHardware : BOOLEAN,
     IsEmbeddingModel : BOOLEAN, Enabled : BOOLEAN]

\* cuda of driver major exactly 7 is turned away
GpuUnsupported_OffByOne(g) ==
    /\ g.Library # "metal"
    /\ (g.Library # "cuda" \/ g.DriverMajor <= MinCudaDriverMajor)
    /\ g.Library # "rocm"

\* the loop body's test: the accelerator does not support flash attention
GpuUnsupported(g) ==
    /\ g.Library # "metal"
    /\ (g.Library # "cuda" \/ g.DriverMajor < MinCudaDriverMajor)
    /\ g.Library # "rocm"

\* hardwareSupported := true; for _, g := range gpus { if ... { false; break } }
RECURSIVE hardwareSupported(_, _)
hardwareSupported(l, i) ==
    IF i > Len(l) THEN TRUE
    ELSE IF GpuUnsupported(l[i]) THEN FALSE
    ELSE hardwareSupported(l, i + 1)

\* the verdict ignores the embedding classification
ValidateFlashAttentionSupport_NoEmbeddingCheck(m, l, requested) ==
    LET headCountK == EmbeddingHeadCountK(m)
        headCountV == EmbeddingHeadCountV(m)
        modelSupported == headCountK # 0 /\ headCountV # 0 /\ headCountK = headCountV
        hw == hardwareSupported(l, 1)
    IN  [SupportedByModel |-> modelSupported,
         SupportedByHardware |-> hw,
         IsEmbeddingModel |-> HasPoolingType(m),
         Enabled |-> requested /\ modelSupported /\ hw]

ValidateFlashAttentionSupport(m, l, requested) ==
    LET isEmbeddingModel == HasPoolingType(m)
        headCountK == EmbeddingHeadCountK(m)
        headCountV == EmbeddingHeadCountV(m)
        modelSupported == headCountK # 0 /\ headCountV # 0 /\ headCountK = headCountV
        hw == hardwareSupported(l, 1)
        enabled == requested /\ modelSupported /\ hw /\ ~isEmbeddingModel
    IN  [SupportedByModel |-> modelSupported,
         SupportedByHardware |-> hw,
         IsEmbeddingModel |-> isEmbeddingModel,
         Enabled |-> enabled]

(***************************************************************************)
(* llm/validation.go: ValidateFlashAttentionSupport.                       *)
(***************************************************************************)
\* discover.GpuInfoList.SupportsFlashAttention (package discover, not in
\* this source tree): every accelerator qualifies.
SupportsFlashAttention(l) ==
    \A i \in 1..Len(l) :
        \/ l[i].Library = "metal"
        \/ l[i].Library = "rocm"
        \/ (l[i].Library = "cuda" /\ l[i].DriverMajor >= MinCudaDriverMajor)

\* the head counts are only required to be non-zero
supportsFlashAttention_NoEqualityCheck(m) ==
    IF HasPoolingType(m) THEN FALSE
    ELSE EmbeddingHeadCountK(m) # 0 /\ EmbeddingHeadCountV(m) # 0

supportsFlashAttention(m) ==
    IF HasPoolingType(m) THEN FALSE
    ELSE LET headCountK == EmbeddingHeadCountK(m)
             headCountV == EmbeddingHeadCountV(m)
         IN  headCountK # 0 /\ headCountV # 0 /\ headCountK = headCountV

LlmValidateFlashAttentionSupport(m, l, requested) ==
    IF ~SupportsFlashAttention(l) THEN FALSE
    ELSE supportsFlashAttention(m) /\ requested

(***************************************************************************)
(* Go string slices: a slice is a window (array id, len, cap) on a backing *)
(* array of the heap; arr = 0 is the nil slice.                            *)
(***************************************************************************)
NilSlice == [arr |-> 0, len |-> 0, cap |-> 0]

Elements(h, s) == IF s.arr = 0 THEN <<>> ELSE SubSeq(h[s.arr], 1, s.len)

Padding(n) == [i \in 1..n |-> ""]

\* allocate a fresh backing array holding xs, capacity rounded up by spare
Alloc(h, xs, spare) ==
    [heap |-> Append(h, xs \o Padding(spare)),
     slice |-> [arr |-> Len(h) + 1, len |-> Len(xs), cap |-> Len(xs) + spare]]

\* a "clone" that returns the argument itself, sharing its backing array
Clone_Alias(h, s, spare) == [heap |-> h, slice |-> s]

\* slices.Clone: nil stays nil, otherwise a copy in a fresh backing array
Clone(h, s, spare) ==
    IF s.arr = 0 THEN [heap |-> h, slice |-> NilSlice]
    ELSE Alloc(h, Elements(h, s), spare)

\* append(s, xs...): in place when the capacity allows, else a fresh array
AppendSlice(h, s, xs, spare) ==
    IF s.arr # 0 /\ s.len + Len(xs) <= s.cap
    THEN [heap |-> [h EXCEPT ![s.arr] =
                       [i \in 1..Len(@) |->
                           IF i > s.len /\ i <= s.len + Len(xs)
                           THEN xs[i - s.len] ELSE @[i]]],
          slice |-> [s EXCEPT !.len = s.len + Len(xs)]]
    ELSE Alloc(h, Elements(h, s) \o xs, spare)

\* slices.Contains
Contains(l, x) == \E i \in 1..Len(l) : l[i] = x

(***************************************************************************)
(* FlashAttentionSupport version: ValidateKVCacheType, GetServerParams.    *)
(***************************************************************************)
\* rejected types fall back to f16 instead of the empty string
ValidateKVCacheType_F16Fallback(cacheType, isEmbeddingModel) ==
    IF cacheType = "" THEN [val |-> "", err |-> "nil"]
    ELSE IF ~Contains(ValidKVCacheTypes, cacheType) THEN [val |-> "f16", err |-> "nil"]
    ELSE IF isEmbeddingModel /\ cacheType # "f16" /\ cacheType # "f32"
         THEN [val |-> "f16", err |-> "nil"]
    ELSE [val |-> cacheType, err |-> "nil"]

\* the membership test against ValidKVCacheTypes is missing
ValidateKVCacheType_NoMembership(cacheType, isEmbeddingModel) ==
    IF cacheType = "" THEN [val |-> "", err |-> "nil"]
    ELSE IF isEmbeddingModel /\ cacheType # "f16" /\ cacheType # "f32"
         THEN [val |-> "", err |-> "nil"]
    ELSE [val |-> cacheType, err |-> "nil"]

ValidateKVCacheType(cacheType, isEmbeddingModel) ==
    IF cacheType = "" THEN [val |-> "", err |-> "nil"]
    ELSE IF ~Contains(ValidKVCacheTypes, cacheType) THEN [val |-> "", err |-> "nil"]
    ELSE IF isEmbeddingModel /\ cacheType # "f16" /\ cacheType # "f32"
         THEN [val |-> "", err |-> "nil"]
    ELSE [val |-> cacheType, err |-> "nil"]

\* the cache type is set even when flash attention is not enabled
GetServerParams_KVWithoutFlashAttn(h, flashAttn, cacheType, base, spare) ==
    LET c == Clone(h, base, spare)
        a == IF flashAttn.Enabled
             THEN AppendSlice(c.heap, c.slice, <<"--flash-attn">>, spare) ELSE c
        validatedType == ValidateKVCacheType(cacheType, flashAttn.IsEmbeddingModel).val
    IN  IF validatedType # ""
        THEN AppendSlice(a.heap, a.slice, <<"--kv-cache-type", validatedType>>, spare)
        ELSE a

\* the additions are put in front of the base parameters
GetServerParams_Prepend(h, flashAttn, cacheType, base, spare) ==
    LET validatedType == ValidateKVCacheType(cacheType, flashAttn.IsEmbeddingModel).val
        added == IF ~flashAttn.Enabled THEN <<>>
                 ELSE IF validatedType # ""
                      THEN <<"--flash-attn", "--kv-cache-type", validatedType>>
                      ELSE <<"--flash-attn">>
    IN  Alloc(h, added \o Elements(h, base), spare)

GetServerParams(h, flashAttn, cacheType, base, spare) ==
    LET c == Clone(h, base, spare)
    IN  IF flashAttn.Enabled
        THEN LET a == AppendSlice(c.heap, c.slice, <<"--flash-attn">>, spare)
                 validatedType ==
                     ValidateKVCacheType(cacheType, flashAttn.IsEmbeddingModel).val
             IN  IF validatedType # ""
                 THEN AppendSlice(a.heap, a.slice,
                                  <<"--kv-cache-type", validatedType>>, spare)
                 ELSE a
        ELSE c

(***************************************************************************)
(* llm/validation.go: ValidateKVCacheType, GetServerParams.                *)
(***************************************************************************)
\* an unknown type defaults to q8_0 instead of f16
LlmValidateKVCacheType_Q8Fallback(cacheType, isEmb) ==
    IF cacheType = "" THEN [val |-> "", err |-> "nil"]
    ELSE IF ~Contains(LlmValidKVCacheTypes, cacheType) THEN [val |-> "q8_0", err |-> "nil"]
    ELSE IF isEmb /\ cacheType # "f16" /\ cacheType # "f32"
         THEN [val |-> "f16", err |-> "nil"]
    ELSE [val |-> cacheType, err |-> "nil"]

\* the input is returned without any check
LlmValidateKVCacheType_Echo(cacheType, isEmb) ==
    [val |-> cacheType, err |-> "nil"]

LlmValidateKVCacheType(cacheType, isEmb) ==
    IF cacheType = "" THEN [val |-> "", err |-> "nil"]
    ELSE IF ~Contains(LlmValidKVCacheTypes, cacheType) THEN [val |-> "f16", err |-> "nil"]
    ELSE IF isEmb /\ cacheType # "f16" /\ cacheType # "f32"
         THEN [val |-> "f16", err |-> "nil"]
    ELSE [val |-> cacheType, err |-> "nil"]

LlmGetServerParams(h, m, l, requested, cacheType, base, spare) ==
    LET c == Clone(h, base, spare)
        flashAttnEnabled == LlmValidateFlashAttentionSupport(m, l, requested)
        isEmbeddingModel == HasPoolingType(m)
    IN  IF flashAttnEnabled
        THEN LET a == AppendSlice(c.heap, c.slice, <<"--flash-attn">>, spare)
                 validatedType == LlmValidateKVCacheType(cacheType, isEmbeddingModel).val
             IN  IF validatedType # ""
                 THEN AppendSlice(a.heap, a.slice,
                                  <<"--kv-cache-type", validatedType>>, spare)
                 ELSE a
        ELSE c

(***************************************************************************)
(* State shared by the specifications.                                     *)
(***************************************************************************)
ZeroSupport ==
    [SupportedByModel |-> FALSE, SupportedByHardware |-> FALSE,
     IsEmbeddingModel |-> FALSE, Enabled |-> FALSE]

ZeroResult == [val |-> "", err |-> "nil"]

\* var ValidKVCacheTypes = []string{...}, in both versions
PackageInit ==
    /\ ValidKVCacheTypes =
           <<"f32", "f16", "q8_0", "q5_1", "q5_0", "iq4_nl", "q4_1", "q4_0">>
    /\ LlmValidKVCacheTypes =
           <<"f32", "f16", "q8_0", "q5_1", "q5_0", "iq4_nl", "q4_1", "q4_0">>

ResultsInit ==
    /\ llmEnabled = FALSE
    /\ validated = ZeroResult
    /\ revalidated = ZeroResult
    /\ llmValidated = ZeroResult
    /\ llmRevalidated = ZeroResult
    /\ params = NilSlice
    /\ llmParams = NilSlice

inputVars == <<kv, gpus, flashAttnRequested, kvCacheType, isEmbedding, baseParams,
               baseBefore, allocSpare, ValidKVCacheTypes, LlmValidKVCacheTypes>>

SupportReady == done \cap {"ValidateFlashAttentionSupport", "literal"} # {}

(***************************************************************************)
(* The calls a caller makes.                                               *)
(***************************************************************************)
CallValidateFlashAttentionSupport ==
    /\ ~SupportReady
    /\ support' = ValidateFlashAttentionSupport(kv, gpus, flashAttnRequested)
    /\ done' = done \cup {"ValidateFlashAttentionSupport"}
    /\ UNCHANGED <<inputVars, heap, llmEnabled, validated, revalidated, llmValidated,
                   llmRevalidated, params, llmParams, callers>>

CallLlmValidateFlashAttentionSupport ==
    /\ "LlmValidateFlashAttentionSupport" \notin done
    /\ llmEnabled' = LlmValidateFlashAttentionSupport(kv, gpus, flashAttnRequested)
    /\ done' = done \cup {"LlmValidateFlashAttentionSupport"}
    /\ UNCHANGED <<inputVars, heap, support, validated, revalidated, llmValidated,
                   llmRevalidated, params, llmParams, callers>>

(***************************************************************************)
(* SpecFA: the flash attention decision over every model metadata,         *)
(* accelerator list and request flag of the bounds.                        *)
(***************************************************************************)
InitFA ==
    /\ PackageInit
    /\ ResultsInit
    /\ kv \in KVs
    /\ gpus \in GpuInfoLists
    /\ flashAttnRequested \in BOOLEAN
    /\ kvCacheType = ""
    /\ isEmbedding = FALSE
    /\ heap = <<>>
    /\ baseParams = NilSlice
    /\ baseBefore = <<>>
    /\ allocSpare = 0
    /\ support = ZeroSupport
    /\ done = {}
    /\ callers = <<>>

NextFA ==
    \/ CallValidateFlashAttentionSupport
    \/ CallLlmValidateFlashAttentionSupport

SpecFA == InitFA /\ [][NextFA]_vars

\* an accelerator qualifies: metal or rocm of any version, cuda of major >= 7
Qualifies(g) ==
    \/ g.Library \in {"metal", "rocm"}
    \/ (g.Library = "cuda" /\ g.DriverMajor >= 7)

AllQualify(l) == \A i \in 1..Len(l) : Qualifies(l[i])

ModelSupported(m) ==
    /\ EmbeddingHeadCountK(m) # 0
    /\ EmbeddingHeadCountV(m) # 0
    /\ EmbeddingHeadCountK(m) = EmbeddingHeadCountV(m)

\* C1: the verdict of ValidateFlashAttentionSupport (the Enabled field of the
\* record, the bool of llm/validation.go) is true exactly when flash attention
\* was requested, the model is supported (K and V head counts non-zero and
\* equal), every accelerator qualifies and the model has no
\* <architecture>.pooling_type key.
C1_EnabledIffAllFour ==
    LET expected == /\ flashAttnRequested
                    /\ ModelSupported(kv)
                    /\ AllQualify(gpus)
                    /\ ~HasPoolingType(kv)
    IN  /\ "ValidateFlashAttentionSupport" \in done => support.Enabled = expected
        /\ "LlmValidateFlashAttentionSupport" \in done => llmEnabled = expected

C1_Witness ==
    /\ "ValidateFlashAttentionSupport" \in done
    /\ "LlmValidateFlashAttentionSupport" \in done
    /\ support.Enabled
    /\ llmEnabled
    /\ Len(gpus) = 2

CallValidateKVCacheType ==
    /\ "ValidateKVCacheType" \notin done
    /\ validated' = ValidateKVCacheType(kvCacheType, isEmbedding)
    /\ done' = done \cup {"ValidateKVCacheType"}
    /\ UNCHANGED <<inputVars, heap, support, llmEnabled, revalidated, llmValidated,
                   llmRevalidated, params, llmParams, callers>>

\* the validator applied to its own result
CallRevalidateKVCacheType ==
    /\ "ValidateKVCacheType" \in done
    /\ "RevalidateKVCacheType" \notin done
    /\ revalidated' = ValidateKVCacheType(validated.val, isEmbedding)
    /\ done' = done \cup {"RevalidateKVCacheType"}
    /\ UNCHANGED <<inputVars, heap, support, llmEnabled, validated, llmValidated,
                   llmRevalidated, params, llmParams, callers>>

CallLlmValidateKVCacheType ==
    /\ "LlmValidateKVCacheType" \notin done
    /\ llmValidated' = LlmValidateKVCacheType(kvCacheType, isEmbedding)
    /\ done' = done \cup {"LlmValidateKVCacheType"}
    /\ UNCHANGED <<inputVars, heap, support, llmEnabled, validated, revalidated,
                   llmRevalidated, params, llmParams, callers>>

CallLlmRevalidateKVCacheType ==
    /\ "LlmValidateKVCacheType" \in done
    /\ "LlmRevalidateKVCacheType" \notin done
    /\ llmRevalidated' = LlmValidateKVCacheType(llmValidated.val, isEmbedding)
    /\ done' = done \cup {"LlmRevalidateKVCacheType"}
    /\ UNCHANGED <<inputVars, heap, support, llmEnabled, validated, revalidated,
                   llmValidated, params, llmParams, callers>>

CallGetServerParams ==
    /\ SupportReady
    /\ "GetServerParams" \notin done
    /\ LET r == GetServerParams(heap, support, kvCacheType, baseParams, allocSpare)
       IN  /\ heap' = r.heap
           /\ params' = r.slice
    /\ done' = done \cup {"GetServerParams"}
    /\ UNCHANGED <<inputVars, support, llmEnabled, validated, revalidated, llmValidated,
                   llmRevalidated, llmParams, callers>>

CallLlmGetServerParams ==
    /\ "LlmGetServerParams" \notin done
    /\ LET r == LlmGetServerParams(heap, kv, gpus, flashAttnRequested, kvCacheType,
                                   baseParams, allocSpare)
       IN  /\ heap' = r.heap
           /\ llmParams' = r.slice
    /\ done' = done \cup {"LlmGetServerParams"}
    /\ UNCHANGED <<inputVars, support, llmEnabled, validated, revalidated, llmValidated,
                   llmRevalidated, params, callers>>

(***************************************************************************)
(* SpecKV: the cache type validator over every input string of            *)
(* CacheTypeInputs and both embedding flags, and the assembler called      *)
(* with flash attention enabled on the same cache type.                    *)
(***************************************************************************)
CacheTypeInputs ==
    {"", "f32", "f16", "q8_0", "q5_1", "q5_0", "iq4_nl", "q4_1", "q4_0",
     "invalid", "F16", "q8"}

InitKV ==
    /\ PackageInit
    /\ ResultsInit
    /\ kvCacheType \in CacheTypeInputs
    /\ isEmbedding \in BOOLEAN
    /\ kv = IF isEmbedding THEN MakeKV("bert", {"bert.pooling_type"}, 1, 1)
                           ELSE MakeKV("llama", {}, 1, 1)
    /\ gpus = <<[Library |-> "cuda", DriverMajor |-> MinCudaDriverMajor + 1]>>
    /\ flashAttnRequested = TRUE
    /\ baseBefore = <<"--model", "test">>
    /\ heap = <<baseBefore>>
    /\ baseParams = [arr |-> 1, len |-> 2, cap |-> 2]
    /\ allocSpare = 0
    /\ support = [SupportedByModel |-> TRUE, SupportedByHardware |-> TRUE,
                  IsEmbeddingModel |-> isEmbedding, Enabled |-> TRUE]
    /\ done = {"literal"}
    /\ callers = <<>>

NextKV ==
    \/ CallValidateKVCacheType
    \/ CallRevalidateKVCacheType
    \/ CallLlmValidateKVCacheType
    \/ CallLlmRevalidateKVCacheType
    \/ CallGetServerParams
    \/ CallLlmGetServerParams

SpecKV == InitKV /\ [][NextKV]_vars

FixedSet == {"f32", "f16", "q8_0", "q5_1", "q5_0", "iq4_nl", "q4_1", "q4_0"}
Quantized == {"q8_0", "q5_1", "q5_0", "iq4_nl", "q4_1", "q4_0"}

\* the requested type is non-empty and either outside the fixed set or
\* quantized for an embedding model
Rejected ==
    /\ kvCacheType # ""
    /\ \/ kvCacheType \notin FixedSet
       \/ (kvCacheType \in Quantized /\ isEmbedding)

C4_LlmFallsBackToF16 ==
    "LlmValidateKVCacheType" \in done =>
        /\ llmValidated.err = "nil"
        /\ Rejected => llmValidated.val = "f16"
        /\ (kvCacheType \in FixedSet /\ ~Rejected) => llmValidated.val = kvCacheType

C4_Witness ==
    /\ "LlmValidateKVCacheType" \in done
    /\ kvCacheType = "invalid"
    /\ llmValidated.val = "f16"

\* the elements a returned slice holds beyond the caller's base parameters
Added(s) == SubSeq(Elements(heap, s), Len(baseBefore) + 1, s.len)

KVValuesInFixedSet(added) ==
    \A i \in 1..Len(added) :
        added[i] = "--kv-cache-type" => (i < Len(added) /\ added[i + 1] \in FixedSet)

\* C8: the validator returns the empty string or a member of the fixed set,
\* for every input string and embedding flag; so every value the assembler
\* emits after --kv-cache-type is a member of the fixed set.
C8_ResultInFixedSetOrEmpty ==
    /\ "ValidateKVCacheType" \in done => validated.val \in FixedSet \cup {""}
    /\ "LlmValidateKVCacheType" \in done => llmValidated.val \in FixedSet \cup {""}
    /\ "GetServerParams" \in done => KVValuesInFixedSet(Added(params))
    /\ "LlmGetServerParams" \in done => KVValuesInFixedSet(Added(llmParams))

C8_Witness ==
    /\ "ValidateKVCacheType" \in done
    /\ "GetServerParams" \in done
    /\ "LlmGetServerParams" \in done
    /\ kvCacheType = "invalid"
    /\ ~isEmbedding
    /\ Added(params) = <<"--flash-attn">>
    /\ Added(llmParams) = <<"--flash-attn", "--kv-cache-type", "f16">>

\* the type is in the fixed set and legal for the model class
Legal == kvCacheType \in FixedSet /\ (isEmbedding => kvCacheType \in {"f16", "f32"})

\* C9: validating the validator's result again with the same embedding flag
\* returns it unchanged, and a type of the fixed set that is legal for the
\* model class is returned unchanged.
C9_ValidatorIdempotent ==
    /\ "RevalidateKVCacheType" \in done => revalidated = validated
    /\ "LlmRevalidateKVCacheType" \in done => llmRevalidated = llmValidated
    /\ ("ValidateKVCacheType" \in done /\ Legal) => validated.val = kvCacheType
    /\ ("LlmValidateKVCacheType" \in done /\ Legal) => llmValidated.val = kvCacheType

C9_Witness ==
    /\ "RevalidateKVCacheType" \in done
    /\ "LlmRevalidateKVCacheType" \in done
    /\ kvCacheType = "invalid"
    /\ isEmbedding
    /\ llmRevalidated.val = "f16"
    /\ revalidated.val = ""

(***************************************************************************)
(* SpecParams: a caller decides (or writes a FlashAttentionSupport record  *)
(* itself) and assembles the launch parameters, with both versions.        *)
(***************************************************************************)
KVSamples ==
    {MakeKV("llama", {}, 1, 1),
     MakeKV("llama", {}, 1, 0),
     MakeKV("llama", {"bert.pooling_type"}, 1, 1),
     MakeKV("bert", {"bert.pooling_type"}, 1, 1),
     MakeKV("bert", {"bert.pooling_type"}, 0, 0)}

GpuSamples ==
    {<<>>,
     <<[Library |-> "cuda", DriverMajor |-> MinCudaDriverMajor + 1]>>,
     <<[Library |-> "cuda", DriverMajor |-> MinCudaDriverMajor - 1]>>}

CacheTypeSamples == {"", "f16", "q8_0", "invalid"}

BaseTokens == {"--model", "--kv-cache-type"}
BaseLists == UNION {[1..n -> BaseTokens] : n \in 0..MaxBase}

\* records a caller may write itself; GetServerParams reads Enabled and
\* IsEmbeddingModel only
LiteralSupports ==
    {s \in FlashAttentionSupport : s.SupportedByModel /\ s.SupportedByHardware}

\* the caller's base slice: b in an array with e spare cells behind it
InitBase(b, e) ==
    /\ baseBefore = b
    /\ IF b = <<>> /\ e = 0
       THEN heap = <<>> /\ baseParams = NilSlice
       ELSE /\ heap = <<b \o [i \in 1..e |-> "spare"]>>
            /\ baseParams = [arr |-> 1, len |-> Len(b), cap |-> Len(b) + e]

InitParams ==
    /\ PackageInit
    /\ ResultsInit
    /\ kv \in KVSamples
    /\ gpus \in GpuSamples
    /\ flashAttnRequested \in BOOLEAN
    /\ kvCacheType \in CacheTypeSamples
    /\ isEmbedding = FALSE
    /\ \E b \in BaseLists, e \in 0..MaxSpare : InitBase(b, e)
    /\ allocSpare \in 0..MaxSpare
    /\ support = ZeroSupport
    /\ done = {}
    /\ callers = <<>>

CallerWritesSupport ==
    /\ ~SupportReady
    /\ support' \in LiteralSupports
    /\ done' = done \cup {"literal"}
    /\ UNCHANGED <<inputVars, heap, llmEnabled, validated, revalidated, llmValidated,
                   llmRevalidated, params, llmParams, callers>>

NextParams ==
    \/ CallValidateFlashAttentionSupport
    \/ CallLlmValidateFlashAttentionSupport
    \/ CallerWritesSupport
    \/ CallGetServerParams
    \/ CallLlmGetServerParams

SpecParams == InitParams /\ [][NextParams]_vars

\* C2: for an embedding model (metadata with the <architecture>.pooling_type
\* key), whatever the head counts, accelerators, request flag and cache type,
\* the decision's Enabled is false and the parameters assembled from that
\* decision are exactly the base parameters.
C2_EmbeddingModelGetsBaseParams ==
    HasPoolingType(kv) =>
        /\ "ValidateFlashAttentionSupport" \in done => ~support.Enabled
        /\ "LlmValidateFlashAttentionSupport" \in done => ~llmEnabled
        /\ ("ValidateFlashAttentionSupport" \in done /\ "GetServerParams" \in done)
               => Elements(heap, params) = baseBefore
        /\ "LlmGetServerParams" \in done => Elements(heap, llmParams) = baseBefore

C2_Witness ==
    /\ HasPoolingType(kv)
    /\ ModelSupported(kv)
    /\ AllQualify(gpus)
    /\ flashAttnRequested
    /\ kvCacheType = "q8_0"
    /\ Len(baseBefore) = 2
    /\ {"ValidateFlashAttentionSupport", "LlmValidateFlashAttentionSupport",
        "GetServerParams", "LlmGetServerParams"} \subseteq done

\* what the assembler has to return for a verdict and a validated type
Expected(enabled, v) ==
    IF ~enabled THEN baseBefore
    ELSE baseBefore \o <<"--flash-attn">>
         \o (IF v # "" THEN <<"--kv-cache-type", v>> ELSE <<>>)

ReturnsExpected ==
    /\ "GetServerParams" \in done =>
           Elements(heap, params) =
               Expected(support.Enabled,
                        ValidateKVCacheType(kvCacheType, support.IsEmbeddingModel).val)
    /\ "LlmGetServerParams" \in done =>
           Elements(heap, llmParams) =
               Expected(LlmValidateFlashAttentionSupport(kv, gpus, flashAttnRequested),
                        LlmValidateKVCacheType(kvCacheType, HasPoolingType(kv)).val)

\* every --kv-cache-type of out at an index above from follows a --flash-attn
KVFollowsFlashAttn(out, from) ==
    \A i \in (from + 1)..Len(out) :
        out[i] = "--kv-cache-type" => (i > 1 /\ out[i - 1] = "--flash-attn")

\* C5 as stated: GetServerParams returns the base parameters when Enabled is
\* false, and otherwise the base parameters, --flash-attn, and --kv-cache-type
\* v exactly when the validator returns a non-empty v; so --kv-cache-type
\* never appears in the result without --flash-attn immediately before it.
C5_ExactParamsAndNoBareKVCacheType ==
    /\ ReturnsExpected
    /\ "GetServerParams" \in done => KVFollowsFlashAttn(Elements(heap, params), 0)
    /\ "LlmGetServerParams" \in done => KVFollowsFlashAttn(Elements(heap, llmParams), 0)

\* C5 amended: the same result, and every --kv-cache-type that GetServerParams
\* adds behind the base parameters has --flash-attn immediately before it.
C5_ExactParamsAndAddedKVFollowsFlashAttn ==
    /\ ReturnsExpected
    /\ "GetServerParams" \in done =>
           KVFollowsFlashAttn(Elements(heap, params), Len(baseBefore))
    /\ "LlmGetServerParams" \in done =>
           KVFollowsFlashAttn(Elements(heap, llmParams), Len(baseBefore))

C5_Witness ==
    /\ "GetServerParams" \in done
    /\ "LlmGetServerParams" \in done
    /\ baseBefore = <<"--model", "--model">>
    /\ Elements(heap, params) =
           <<"--model", "--model", "--flash-attn", "--kv-cache-type", "q8_0">>
    /\ Elements(heap, llmParams) = Elements(heap, params)

IsPrefix(p, q) == Len(p) <= Len(q) /\ SubSeq(q, 1, Len(p)) = p

\* C6: after a call of GetServerParams the caller's base parameter slice holds
\* what it held before (same length, elements and order), and the returned
\* list starts with the base parameters, everything added coming after them.
C6_BaseParamsUntouchedAndPrefix ==
    /\ "GetServerParams" \in done =>
           /\ Elements(heap, baseParams) = baseBefore
           /\ IsPrefix(baseBefore, Elements(heap, params))
    /\ "LlmGetServerParams" \in done =>
           /\ Elements(heap, baseParams) = baseBefore
           /\ IsPrefix(baseBefore, Elements(heap, llmParams))

C6_Witness ==
    /\ "GetServerParams" \in done
    /\ "LlmGetServerParams" \in done
    /\ Len(baseBefore) = 2
    /\ baseParams.cap > baseParams.len
    /\ params.len = 5
    /\ llmParams.len = 5
    /\ Elements(heap, baseParams) = baseBefore

(***************************************************************************)
(* SpecConc: several callers evaluate launch decisions concurrently, all   *)
(* on the same base parameter slice, whose backing array has spare         *)
(* capacity.  A caller of version "fas" calls ValidateFlashAttentionSupport*)
(* and then GetServerParams of the FlashAttentionSupport version; a caller *)
(* of version "llm" calls GetServerParams of llm/validation.go.  Each step *)
(* is one statement of the function, and the steps of the callers          *)
(* interleave in every order.                                              *)
(***************************************************************************)
CallerInits ==
    [version : {"fas", "llm"},
     kv : {MakeKV("llama", {}, 1, 1), MakeKV("bert", {"bert.pooling_type"}, 1, 1)},
     kvCacheType : {"q8_0", "invalid"},
     pc : {"decide", "clone"},
     enabled : {FALSE},
     isEmbeddingModel : {FALSE},
     params : {NilSlice},
     validatedType : {""}]

InitConc ==
    /\ PackageInit
    /\ ResultsInit
    /\ kv = MakeKV("llama", {}, 1, 1)
    /\ gpus = <<[Library |-> "cuda", DriverMajor |-> MinCudaDriverMajor + 1]>>
    /\ flashAttnRequested = TRUE
    /\ kvCacheType = ""
    /\ isEmbedding = FALSE
    /\ baseBefore = <<"--model">>
    /\ heap = <<baseBefore \o [i \in 1..SharedSpare |-> "spare"]>>
    /\ baseParams = [arr |-> 1, len |-> 1, cap |-> 1 + SharedSpare]
    /\ allocSpare \in 0..MaxSpare
    /\ support = ZeroSupport
    /\ done = {}
    /\ callers \in [1..NumCallers -> CallerInits]
    /\ \A c \in 1..NumCallers :
           callers[c].pc = IF callers[c].version = "fas" THEN "decide" ELSE "clone"

concFrame == <<inputVars, support, llmEnabled, validated, revalidated, llmValidated,
               llmRevalidated, params, llmParams, done>>

AfterDecision(enabled) == IF enabled THEN "append_fa" ELSE "ret"

\* fas: the caller's ValidateFlashAttentionSupport call;
\* llm: flashAttnEnabled := ...; isEmbeddingModel := ...
ConcDecide(c) ==
    LET me == callers[c]
    IN  /\ me.pc = "decide"
        /\ IF me.version = "fas"
           THEN LET s == ValidateFlashAttentionSupport(me.kv, gpus, flashAttnRequested)
                IN  callers' = [callers EXCEPT ![c].enabled = s.Enabled,
                                               ![c].isEmbeddingModel = s.IsEmbeddingModel,
                                               ![c].pc = "clone"]
           ELSE LET e == LlmValidateFlashAttentionSupport(me.kv, gpus, flashAttnRequested)
                IN  callers' = [callers EXCEPT ![c].enabled = e,
                                               ![c].isEmbeddingModel = HasPoolingType(me.kv),
                                               ![c].pc = AfterDecision(e)]
        /\ UNCHANGED <<concFrame, heap>>

\* params := slices.Clone(baseParams)
ConcClone(c) ==
    LET me == callers[c]
        r == Clone(heap, baseParams, allocSpare)
    IN  /\ me.pc = "clone"
        /\ heap' = r.heap
        /\ callers' = [callers EXCEPT ![c].params = r.slice,
                                      ![c].pc = IF me.version = "fas"
                                                THEN AfterDecision(me.enabled)
                                                ELSE "decide"]
        /\ UNCHANGED concFrame

\* params = append(params, "--flash-attn")
ConcAppendFlashAttn(c) ==
    LET me == callers[c]
        r == AppendSlice(heap, me.params, <<"--flash-attn">>, allocSpare)
    IN  /\ me.pc = "append_fa"
        /\ heap' = r.heap
        /\ callers' = [callers EXCEPT ![c].params = r.slice, ![c].pc = "validate"]
        /\ UNCHANGED concFrame

\* validatedType, _ := ValidateKVCacheType(kvCacheType, isEmbeddingModel)
ConcValidate(c) ==
    LET me == callers[c]
        v == IF me.version = "fas"
             THEN ValidateKVCacheType(me.kvCacheType, me.isEmbeddingModel).val
             ELSE LlmValidateKVCacheType(me.kvCacheType, me.isEmbeddingModel).val
    IN  /\ me.pc = "validate"
        /\ callers' = [callers EXCEPT ![c].validatedType = v,
                                      ![c].pc = IF v # "" THEN "append_kv" ELSE "ret"]
        /\ UNCHANGED <<concFrame, heap>>

\* params = append(params, "--kv-cache-type", validatedType)
ConcAppendKVCacheType(c) ==
    LET me == callers[c]
        r == AppendSlice(heap, me.params, <<"--kv-cache-type", me.validatedType>>,
                         allocSpare)
    IN  /\ me.pc = "append_kv"
        /\ heap' = r.heap
        /\ callers' = [callers EXCEPT ![c].params = r.slice, ![c].pc = "ret"]
        /\ UNCHANGED concFrame

NextConc ==
    \E c \in DOMAIN callers :
        \/ ConcDecide(c)
        \/ ConcClone(c)
        \/ ConcAppendFlashAttn(c)
        \/ ConcValidate(c)
        \/ ConcAppendKVCacheType(c)

SpecConc == InitConc /\ [][NextConc]_vars

\* the heap before any caller has run: the shared base array alone
HeapBefore ==
    <<baseBefore \o [i \in 1..(baseParams.cap - baseParams.len) |-> "spare"]>>

\* the parameters the call of caller c returns when it runs alone
Alone(c) ==
    LET me == callers[c]
        r == IF me.version = "fas"
             THEN GetServerParams(HeapBefore,
                      ValidateFlashAttentionSupport(me.kv, gpus, flashAttnRequested),
                      me.kvCacheType, baseParams, allocSpare)
             ELSE LlmGetServerParams(HeapBefore, me.kv, gpus, flashAttnRequested,
                                     me.kvCacheType, baseParams, allocSpare)
    IN  Elements(r.heap, r.slice)

====
